---- MODULE Spec2Model ----
(***************************************************************************)
(* Run registry (run_manager.py) and run orchestrator (app.py: start_run,  *)
(* its background thread bg, _run_tests_sync) of OllamaIQ.                 *)
(*                                                                         *)
(* Threads.  Every start_run request creates a run and starts one daemon   *)
(* thread running bg.  Every registry call is made as arun(coro), that is  *)
(* asyncio.run(coro): a fresh event loop per call, on the calling thread.  *)
(*                                                                         *)
(* The lock.  RUNS_LOCK is one asyncio.Lock shared by all those loops.  An *)
(* asyncio.Lock is not a thread lock: its state is a plain flag (_locked), *)
(* a queue of waiting futures (_waiters) and the loop it got bound to the  *)
(* first time somebody had to wait (_loop).  Used from several threads:    *)
(*   - the fast path tests the flag and then sets it (two steps);          *)
(*   - a caller that finds the lock taken binds the lock to its own loop   *)
(*     and waits on a future; the holder's release completes that future   *)
(*     from another thread, which may or may not wake the waiting loop;    *)
(*   - once the lock is bound, every later caller that has to take the     *)
(*     slow path runs on a different loop and gets RuntimeError;           *)
(*   - release of a lock whose flag is already clear raises RuntimeError.  *)
(* The model keeps these outcomes as they are.                             *)
(***************************************************************************)
EXTENDS Integers, Sequences, FiniteSets, TLC

\* Number of start_run requests (each with its own background thread).
NRuns == 2
\* Largest number of selected models of a run under Spec.
MaxModels == 1
\* Largest number of selected models of the single run under SpecSolo.
MaxModelsSolo == 23
\* How many times, in one behaviour, a registry call may find RUNS_LOCK in
\* contention (take the slow path of acquire, or set a flag already set).
MaxLockFaults == 1
\* The same bound under SpecApi.
MaxLockFaultsApi == 2

Runs == 1..NRuns
\* A caller of the registry API that passes a run_id the registry never held.
Ext == NRuns + 1
Threads == 1..(NRuns + 1)
\* Tokens uuid4().hex can return.
Ids == 1..NRuns
UnknownId == NRuns + 1
NoThread == NRuns + 2

VARIABLES
  RUNS,        \* run_manager.RUNS: run_id -> run dict
  drawn,       \* tokens uuid4 has returned so far
  locked,      \* RUNS_LOCK._locked
  lockBound,   \* RUNS_LOCK._loop is not None
  waiter,      \* the thread whose future is in RUNS_LOCK._waiters (NoThread: none)
  woken,       \* that future is done (release completed it)
  faults,      \* contended acquisitions so far (bounded by MaxLockFaults)
  pc,          \* per thread: the line it is at
  ph,          \* per thread: where it is inside the registry call at pc
  runId,       \* start_run: run_id
  total,       \* _run_tests_sync: total = len(test_models)
  idx,         \* _run_tests_sync: idx
  summary,     \* the summary dict of each run (one object, shared by reference)
  exc,         \* the exception the thread last caught (its text)
  extOp,       \* the registry function the API caller is calling
  extGot,      \* what get_run returned to the API caller
  maxModels,   \* bound on len(test_models), fixed by Init
  maxFaults,   \* bound on faults, fixed by Init
  pollPc,      \* run_status: "idle", or "reading" while jsonify(r) serialises the run
  pollRef,     \* run_status: r, the reference get_run returned
  pollTodo,    \* run_status: the fields of r jsonify has not read yet
  snap,        \* run_status: the fields read so far (the response body)
  attempted,   \* per run: the messages its thread has passed to append_message/set_error
  runFailure,  \* per run: the run-level failure of _run_tests_sync, "" if none
  returned,    \* per request: start_run has returned {'run_id': run_id} to its client
  persist,     \* per run: what became of each hand-over of the summary to persistence
  worlds,      \* names what clients and sandbox environments can do, fixed by Init
  script,      \* per run: what they did during the last test_model call
  sbPc,        \* _run_code_safely: the line the call is at
  sbCode,      \* _run_code_safely: code_src
  sbN,         \* _run_code_safely: len(test_cases)
  tmpFile,     \* the temporary file of the call: "none", "exists", "gone"
  tfName,      \* _run_code_safely: tf_name has been assigned
  proc,        \* the child process: "none", "running", "exited", "killed"
  sbOut,       \* _run_code_safely: result.stdout
  sbRet,       \* _run_code_safely: the value returned or the exception raised
  evIn,        \* the function last applied to a script, and the script
  evOut        \* what it returned

vars == <<RUNS, drawn, locked, lockBound, waiter, woken, faults, pc, ph, runId, total,
          idx, summary, exc, extOp, extGot, maxModels, maxFaults, pollPc, pollRef,
          pollTodo, snap, attempted, runFailure, returned, persist, worlds, script,
          sbPc, sbCode, sbN, tmpFile, tfName, proc, sbOut, sbRet, evIn, evOut>>

lockVars == <<locked, lockBound, waiter, woken, faults>>
pollVars == <<pollPc, pollRef, pollTodo, snap>>
cfgVars == <<maxModels, maxFaults, worlds>>
sbVars == <<sbPc, sbCode, sbN, tmpFile, tfName, proc, sbOut, sbRet>>
evVars == <<evIn, evOut>>
localVars == <<runId, total, idx, summary, extOp, extGot, cfgVars, pollVars, runFailure,
               returned, persist, script, sbVars, evVars>>

----------------------------------------------------------------------------
(* Data *)

\* A log message.  text is the fixed part of the f-string, err the exception
\* text it embeds, mn/idx/total the model and counters it embeds.
Msg(text, err, mn, i, n) == [text |-> text, err |-> err, mn |-> mn, idx |-> i, total |-> n]

\* None is <<>>; a reference to the summary object of run r is <<r>>.
None == <<>>

\* run_manager.create_run: the dict stored for a new run.
NewRun(id, metadata) ==
  [id |-> id, status |-> "pending", messages |-> <<>>, progress |-> 0,
   metadata |-> metadata, result |-> None]

\* start_run: the metadata of request r ({'host':..., 'models':..., 'repeat':...}).
Metadata(r) == [host |-> r, models |-> <<>>, repeat |-> 1]

\* _run_tests_sync: summary = {"host":..., "models_tested": [], ...}
NewSummary(r, err) == [host |-> r, models_tested |-> <<>>, error |-> err,
                       has_top |-> FALSE, db_id |-> 0]

\* A token generator that repeats itself.
uuid4_repeats == CHOOSE i \in Ids : \A j \in Ids : i <= j

\* uuid.uuid4().hex: a 128-bit random token, taken to be one never returned before.
uuid4 == CHOOSE i \in Ids \ drawn : \A j \in Ids \ drawn : i <= j

\* run_manager.get_run: RUNS.get(run_id), a reference to the run or None.
get_run(id) == IF id \in DOMAIN RUNS THEN <<id>> ELSE None

----------------------------------------------------------------------------
(* ollama_etch_tester: tables, chat, code extraction *)

\* SMARTNESS_TESTS, in table order.  key is the text the check looks for.
SMARTNESS_TESTS ==
  << [name |-> "Basic Arithmetic", key |-> "45", points |-> 10, category |-> "math"],
     [name |-> "Multiplication", key |-> "180", points |-> 10, category |-> "math"],
     [name |-> "Word Problem", key |-> "6", points |-> 10, category |-> "math"],
     [name |-> "Sequence Pattern", key |-> "42", points |-> 15, category |-> "logic"],
     [name |-> "Logical Deduction", key |-> "no", points |-> 15, category |-> "logic"],
     [name |-> "Comparison Logic", key |-> "yes", points |-> 15, category |-> "logic"],
     [name |-> "Factual Knowledge", key |-> "paris", points |-> 10, category |-> "knowledge"],
     [name |-> "Reading Comprehension", key |-> "green", points |-> 15,
      category |-> "knowledge"] >>

\* CODING_TESTS, in table order.  cases is len(test["test_cases"]).
CODING_TESTS ==
  << [name |-> "Sum of List", difficulty |-> "easy", cases |-> 5, points |-> 25],
     [name |-> "Find Maximum", difficulty |-> "easy", cases |-> 4, points |-> 25],
     [name |-> "Count Vowels", difficulty |-> "medium", cases |-> 5, points |-> 30],
     [name |-> "Reverse Words", difficulty |-> "medium", cases |-> 4, points |-> 30],
     [name |-> "Fibonacci Sequence", difficulty |-> "hard", cases |-> 5, points |-> 40] >>

\* What client.chat does for one prompt: it raises (msg is str(e), which can
\* be the empty string) or it returns a text.
ChatRaises(msg) == [raises |-> TRUE, msg |-> msg, text |-> None]
ChatReturns(text) == [raises |-> FALSE, msg |-> "", text |-> <<text>>]

\* _chat_with_model: (latency, text, None) or (latency, None, str(e)); the
\* latency is wall time and is left out.
chat_with_model(reply) ==
  IF reply.raises
  THEN [response |-> None, error |-> <<reply.msg>>]
  ELSE [response |-> reply.text, error |-> None]

\* 'if error' for error: Optional[str].
ErrorTruthy(error) == error # None /\ error[1] # ""

\* A reasoning answer is the set of the words of interest it contains ({} is
\* the empty string).  test["check"](response):
check(test, text) ==
  CASE test.name = "Comparison Logic" -> ("yes" \in text /\ "no" \notin text)
    [] OTHER -> test.key \in text

\* round((earned / total) * 100, 1), in tenths of a percent.  earned / total
\* is a multiple of 1/100 or of 1/150, so no value lies half-way between two
\* tenths and rounding is to the nearest tenth.
Round1(earned, total_points) ==
  IF earned >= 0
  THEN (2000 * earned + total_points) \div (2 * total_points)
  ELSE 0 - ((2000 * (0 - earned) + total_points) \div (2 * total_points))

\* Lines 126-145: the outcome of one reasoning test, c being what
\* _chat_with_model returned for its prompt.
smartness_passed(test, c) ==
  IF c.response # None /\ c.response[1] # {} /\ ~ErrorTruthy(c.error)
  THEN check(test, c.response[1])
  ELSE FALSE

smartness_test(test, c) ==
  [name |-> test.name, points |-> test.points,
   passed |-> smartness_passed(test, c), error |-> c.error]

\* Lines 121-122, 132-134 and 136: the totals after one more test.
smartness_add(acc, o) ==
  [total_points |-> acc.total_points + o.points,
   earned_points |-> acc.earned_points + (IF o.passed THEN o.points ELSE 0),
   tests |-> Append(acc.tests, o)]

RECURSIVE smartness_loop(_, _, _)
smartness_loop(replies, i, acc) ==
  IF i > Len(SMARTNESS_TESTS) THEN acc
  ELSE smartness_loop(replies, i + 1,
         smartness_add(acc, smartness_test(SMARTNESS_TESTS[i],
                                           chat_with_model(replies[i]))))

\* Lines 147-163: the report made of the totals.
smartness_report(r) ==
  [score |-> IF r.total_points > 0 THEN Round1(r.earned_points, r.total_points)
             ELSE 0,
   earned_points |-> r.earned_points,
   total_points |-> r.total_points,
   tests |-> r.tests]

\* _run_smartness_tests(client, model), replies[i] being what the client does
\* for the prompt of test i.
run_smartness_tests(replies) ==
  smartness_report(smartness_loop(replies, 1, [total_points |-> 0, earned_points |-> 0,
                                               tests |-> <<>>]))

\* A source text is the sequence of its top-level pieces.
DefTokens == {"def solve", "def other", "def _helper"}
SrcTokens == DefTokens \cup {"x = 1", "while True", "print; exit", "open(", "eval(",
                             "urlopen(", "'\\n'"}

\* code.encode('utf-8').decode('unicode_escape'): a backslash escape written
\* in the code is replaced by the character it names.
Unescape(src) == [i \in DOMAIN src |-> IF src[i] = "'\\n'" THEN "'<LF>'" ELSE src[i]]

\* A coding answer: a fenced code block with the given source, the bare source,
\* prose without any code, or the empty string.
Answer(form, src) == [form |-> form, src |-> src]

\* An extraction that finds no code.
extract_none(response) == <<>>

\* _extract_code(text): '' for no text; the content of the first code block;
\* else the first function definition found (up to the next top-level
\* statement); else ''.
extract_code(response) ==
  IF response = None \/ response[1].form = "empty" THEN <<>>
  ELSE LET text == response[1]
           defs == {i \in DOMAIN text.src : text.src[i] \in DefTokens}
       IN  CASE text.form = "fenced" -> Unescape(text.src)
             [] text.form = "bare" /\ defs # {} ->
                  Unescape(<<text.src[CHOOSE i \in defs : \A j \in defs : i <= j]>>)
             [] OTHER -> <<>>

----------------------------------------------------------------------------
(* ollama_etch_tester._run_code_safely: values *)

\* A value read from JSON (or a Python default): an int, or a str, null or
\* list whose content does not matter, or a missing key.
JInt(n) == [t |-> "int", v |-> n]
JOther(t) == [t |-> t, v |-> 0]
JAbsent == JOther("absent")

\* dangerous = [...]
dangerous == <<"subprocess", "socket", "requests", "eval(", "exec(", "__import__",
               "open(", "os.system">>

\* A check that finds nothing.
Forbidden_none(code_src) == {}

\* pattern in code_src (substring search).
Contains(pattern, code_src) ==
  \E i \in DOMAIN code_src :
     \/ code_src[i] = pattern
     \/ (code_src[i] = "urlopen(" /\ pattern = "open(")

Forbidden(code_src) == {k \in DOMAIN dangerous : Contains(dangerous[k], code_src)}

\* The pattern the for loop stops at: the first of the list the source contains.
FirstForbidden(code_src) ==
  dangerous[CHOOSE k \in Forbidden(code_src) : \A j \in Forbidden(code_src) : k <= j]

\* details = [{'error': ...}]: the reason and, for a forbidden pattern, the
\* pattern it names.
Reason(text, pattern) == [text |-> text, pattern |-> pattern]
NoReason == Reason("", "")

\* return passed, total, details
Return(passed, tot, error, results) ==
  [exc |-> "", passed |-> passed, total |-> tot, error |-> error, results |-> results]

\* An exception leaves _run_code_safely.
Raised(e) == [exc |-> e, passed |-> JAbsent, total |-> JAbsent, error |-> NoReason,
              results |-> JAbsent]

Return_283(n) ==
  Return(JInt(0), JInt(n), Reason("No code extracted from response", ""), JOther("list"))
Return_289(code_src, n) ==
  Return(JInt(0), JInt(n), Reason("Forbidden pattern", FirstForbidden(code_src)),
         JOther("list"))
Return_361(n) == Return(JInt(0), JInt(n), Reason("Execution timeout", ""), JOther("list"))

\* What the child process wrote to stdout.
StdoutEmpty == [t |-> "empty"]
StdoutText == [t |-> "text"]
StdoutDict(error, passed, tot, results) ==
  [t |-> "dict", error |-> error, passed |-> passed, total |-> tot, results |-> results]
\* A JSON document that is not an object (a list, a number, a string, null).
StdoutNotObject == [t |-> "notobject"]

\* dict.get(key, default)
Get(value, default) == IF value.t = "absent" THEN default ELSE value

\* Lines 363-375: from the captured stdout to the return value.
Parse(stdout, n) ==
  CASE stdout.t = "empty" ->
         Return(JInt(0), JInt(n), Reason("No output. Stderr", ""), JOther("list"))
    [] stdout.t = "text" -> Return(JInt(0), JInt(n), Reason("Invalid JSON", ""), JOther("list"))
    [] stdout.t = "notobject" -> Raised("TypeError")
    [] stdout.t = "dict" ->
         IF stdout.error.t # "absent"
         THEN Return(JInt(0), JInt(n), Reason("data['error']", ""), JOther("list"))
         ELSE Return(Get(stdout.passed, JInt(0)), Get(stdout.total, JInt(n)), NoReason,
                     Get(stdout.results, JOther("list")))

\* What the harness prints when it runs to its end: the error object when it
\* finds no callable, else the counts of the n test cases.
HarnessOutputs(code_src, n) ==
  IF \E i \in DOMAIN code_src : code_src[i] \in {"def solve", "def other"}
  THEN {StdoutDict(JAbsent, JInt(p), JInt(n), JOther("list")) : p \in 0..n}
  ELSE {StdoutDict(JOther("str"), JAbsent, JAbsent, JAbsent)}

\* What a source that prints and exits before the harness runs can leave on
\* stdout.
ForgedOutputs ==
  {StdoutEmpty, StdoutText, StdoutNotObject}
    \cup {StdoutDict(JAbsent, p, t, r) :
            p \in {JAbsent, JInt(0 - 1), JInt(7), JOther("str")},
            t \in {JAbsent, JInt(0), JInt(1), JOther("str")},
            r \in {JAbsent, JOther("null")}}

\* The ways the child process can end for a source: what it leaves on stdout
\* when it exits, "timeout" when it is still running at the deadline,
\* "undecodable" when its output is not valid text.
ChildOutcomes(code_src, n) ==
  LET has(tok) == \E i \in DOMAIN code_src : code_src[i] = tok
      exits ==
        CASE has("'<LF>'") -> {StdoutEmpty}
          [] has("while True") -> {}
          [] has("print; exit") -> ForgedOutputs
          [] OTHER -> HarnessOutputs(code_src, n) \cup {StdoutEmpty}
  IN  {[k |-> "exit", out |-> o] : o \in exits}
        \cup {[k |-> "timeout", out |-> StdoutEmpty]}
        \cup (IF has("print; exit")
              THEN {[k |-> "undecodable", out |-> StdoutEmpty]} ELSE {})

\* The environment of one call: fault is the step of lines 347-359 that
\* raises OSError ("none": no step does), child is how the process ends.
Env(fault, child) == [fault |-> fault, child |-> child]
Faults == {"none", "mktemp", "write", "spawn"}

\* _run_code_safely(code_src, test_cases) with len(test_cases) = n.
run_code_safely(code_src, n, env) ==
  CASE code_src = <<>> -> Return_283(n)
    [] code_src # <<>> /\ Forbidden(code_src) # {} -> Return_289(code_src, n)
    [] OTHER ->
         CASE env.fault # "none" -> Raised("OSError")
           [] env.fault = "none" /\ env.child.k = "timeout" -> Return_361(n)
           [] env.fault = "none" /\ env.child.k = "undecodable" ->
                Raised("UnicodeDecodeError")
           [] OTHER -> Parse(env.child.out, n)

----------------------------------------------------------------------------
(* ollama_etch_tester._run_coding_tests and test_model *)

\* int(x) of the quotient a / b, b > 0: truncation towards zero.
Trunc(a, b) == IF a >= 0 THEN a \div b ELSE 0 - ((0 - a) \div b)

\* Lines 419-422.  exc is the TypeError of comparing or dividing a value that
\* is not a number.
points_earned(passed, tot, points) ==
  CASE tot.t # "int" -> [exc |-> "TypeError", v |-> 0]
    [] tot.t = "int" /\ tot.v > 0 /\ passed.t # "int" -> [exc |-> "TypeError", v |-> 0]
    [] tot.t = "int" /\ tot.v > 0 /\ passed.t = "int" ->
         [exc |-> "", v |-> Trunc(passed.v * points, tot.v)]
    [] OTHER -> [exc |-> "", v |-> 0]

\* Lines 424-438: the record of a test that went to the sandbox, r being what
\* _run_code_safely returned or raised and pe the points of lines 419-422.
\* Line 437 slices the details, which raises for a value that is no list.
coding_test_424(test, r, pe) ==
  [exc |-> CASE pe.exc # "" -> pe.exc
             [] pe.exc = "" /\ r.results.t \in {"null", "int"} -> "TypeError"
             [] OTHER -> "",
   name |-> test.name, points |-> test.points, earned |-> pe.v,
   passed_tests |-> r.passed, total_tests |-> r.total,
   error |-> None, ran |-> TRUE]

\* Lines 418-422.
coding_test_419(test, r) ==
  coding_test_424(test, r,
                  IF r.exc = "" THEN points_earned(r.passed, r.total, test.points)
                  ELSE [exc |-> r.exc, v |-> 0])

\* Lines 400-416, c being what _chat_with_model returned.
coding_test_400(test, c, env) ==
  IF ErrorTruthy(c.error)
  THEN [exc |-> "", name |-> test.name, points |-> test.points, earned |-> 0,
        passed_tests |-> JInt(0), total_tests |-> JInt(test.cases),
        error |-> c.error, ran |-> FALSE]
  ELSE coding_test_419(test, run_code_safely(extract_code(c.response), test.cases, env))

\* The outcome of one coding test: inp.reply is what the client does for its
\* prompt, inp.env the environment of the sandbox call.
coding_test(test, inp) == coding_test_400(test, chat_with_model(inp.reply), inp.env)

\* Lines 395-396, 424-425 and 427: the totals after one more test.
coding_add(acc, o) ==
  [exc |-> "", at |-> 0,
   total_points |-> acc.total_points + o.points,
   earned_points |-> acc.earned_points + o.earned,
   tests |-> Append(acc.tests, o)]

RECURSIVE coding_loop(_, _, _)
RECURSIVE coding_step(_, _, _, _)
\* One pass of the for loop, o being the outcome of test i: an exception
\* leaves the loop.
coding_step(inputs, i, acc, o) ==
  IF o.exc # ""
  THEN [acc EXCEPT !.exc = o.exc, !.at = i]
  ELSE coding_loop(inputs, i + 1, coding_add(acc, o))

coding_loop(inputs, i, acc) ==
  IF i > Len(CODING_TESTS) THEN acc
  ELSE coding_step(inputs, i, acc, coding_test(CODING_TESTS[i], inputs[i]))

\* Lines 440-456: the report made of the totals.
coding_report(r) ==
  [exc |-> r.exc,
   at |-> r.at,
   score |-> IF r.total_points > 0 THEN Round1(r.earned_points, r.total_points)
             ELSE 0,
   earned_points |-> r.earned_points,
   total_points |-> r.total_points,
   tests |-> r.tests]

\* _run_coding_tests(client, model); exc is the exception that leaves it ("":
\* it returns) and at the test it was raised in.
run_coding_tests(inputs) ==
  coding_report(coding_loop(inputs, 1, [exc |-> "", at |-> 0, total_points |-> 0,
                                        earned_points |-> 0, tests |-> <<>>]))

\* What the client and the sandbox environment do during one test_model call.
World(smart, code) == [smart |-> smart, code |-> code]

\* test_model(client, model, repeat): the report, or the exception that leaves
\* it.  Line 505 compares passed_tests with 0.
test_model_report(s, c) ==
  [exc |-> CASE c.exc # "" -> c.exc
             [] c.exc = "" /\ (\E i \in DOMAIN c.tests : c.tests[i].passed_tests.t # "int")
                  -> "TypeError"
             [] OTHER -> "",
   smartness_score |-> s.score,
   code_score |-> c.score]

test_model(w) == test_model_report(run_smartness_tests(w.smart), run_coding_tests(w.code))

----------------------------------------------------------------------------
(* app._normalize_models and the selection of lines 115-124 *)

\* The entries of a listing, in the shapes _normalize_models knows: a str,
\* a dict with 'name', a dict with 'model' only, an object with .model.  A
\* name of "" stands for a missing or empty value.
ListingEntry(shape, name) == [shape |-> shape, name |-> name]

\* A name that leaves the listing unchanged.
Lower_same(name) == name

\* mn.lower()
Lower(name) ==
  CASE name = "Etch-B" -> "etch-b"
    [] OTHER -> name

\* 'etch' in lowered, for a name already lowered.
ContainsEtch(lowered) == lowered \in {"etch-a", "etch-b", "fetcher"}

\* Lines 76-91: the name of one element m of list(models_raw) that is not a
\* (str, list) pair; "" when there is none.  A dict with neither 'name' nor
\* 'model' is named by str(m).
entry_name(m) ==
  IF m.shape \in {"dict_name", "dict_model"} /\ m.name = "" THEN "{}" ELSE m.name

RECURSIVE append_names(_, _)
\* Lines 92-93: if name and name not in names: names.append(name)
append_names(items, names) ==
  IF items = <<>> THEN names
  ELSE LET name == entry_name(Head(items))
       IN  append_names(Tail(items),
                        IF name # "" /\ \A i \in DOMAIN names : names[i] # name
                        THEN Append(names, name) ELSE names)

\* The elements with a .model attribute among those of a (str, list) pair
\* (lines 81-87).
with_model(items) ==
  LET HasModel(m) == m.shape = "obj"
  IN  SelectSeq(items, HasModel)

\* _normalize_models(models_raw): raw.wrap is "list" for a plain list of
\* entries and "pair" for a response object that iterates as one
\* ('models', [...]) pair.
normalize_models(raw) ==
  IF raw.wrap = "pair" THEN append_names(with_model(raw.items), <<>>)
  ELSE append_names(raw.items, <<>>)

\* Lines 117-120: test_models.
select_models(models, names) ==
  LET Available(mn) == \E i \in DOMAIN names : names[i] = mn
      Marked(mn) == ContainsEtch(Lower(mn))
  IN  IF models # <<>> THEN SelectSeq(models, Available) ELSE SelectSeq(names, Marked)

----------------------------------------------------------------------------
(* app.start_run.bg, lines 192-215: the top-performer summary *)

\* A model report as far as lines 192-215 read it: the model's name, the mean
\* of latency_stats, code_score and smartness_score, each a number (scores in
\* tenths of a percent, means in milliseconds) or null.
JNull == JOther("null")
ModelReport(model, mean, code_score, smartness_score) ==
  [model |-> model, mean |-> mean, code_score |-> code_score,
   smartness_score |-> smartness_score]

\* float('inf') and the -1 of the key functions, in the units of the values.
Inf == 1000000
MinusOne == 0 - 10

\* lambda m: (m.get('latency_stats') or {}).get('mean') or float('inf')
fastest_key(m) == IF m.mean.t = "int" /\ m.mean.v # 0 THEN m.mean.v ELSE Inf

\* lambda m: (m.get(f) is not None) and float(m.get(f)) or -1
best_key(v) == IF v.t = "int" /\ v.v # 0 THEN v.v ELSE MinusOne

\* The element min() returns: the first with the least key.
FirstMin(keys) ==
  CHOOSE i \in DOMAIN keys :
    /\ \A j \in DOMAIN keys : keys[j] >= keys[i]
    /\ \A j \in DOMAIN keys : (j < i) => keys[j] > keys[i]

\* The element max() returns: the first with the greatest key.
FirstMax(keys) ==
  CHOOSE i \in DOMAIN keys :
    /\ \A j \in DOMAIN keys : keys[j] <= keys[i]
    /\ \A j \in DOMAIN keys : (j < i) => keys[j] < keys[i]

\* A key of top that is not set.
NoEntry == [model |-> 0, value |-> JNull, set |-> FALSE]
Entry(model, value) == [model |-> model, value |-> value, set |-> TRUE]

\* Lines 197-198: top['fastest'].
top_fastest(ms) ==
  LET i == FirstMin([k \in DOMAIN ms |-> fastest_key(ms[k])])
  IN  Entry(ms[i].model, ms[i].mean)

\* Lines 202-204 (and 208-210): top['best_code'] (top['best_smart']), scores
\* being the models' values of the field.
top_best(ms, scores) ==
  LET i == FirstMax([k \in DOMAIN ms |-> best_key(scores[k])])
  IN  IF scores[i].t # "null" THEN Entry(ms[i].model, scores[i]) ELSE NoEntry

\* Lines 193-215: summary['top_summary'] for ms = summary['models_tested'].
compute_top(ms) ==
  IF ms = <<>>
  THEN [fastest |-> NoEntry, best_code |-> NoEntry, best_smart |-> NoEntry]
  ELSE [fastest |-> top_fastest(ms),
        best_code |-> top_best(ms, [k \in DOMAIN ms |-> ms[k].code_score]),
        best_smart |-> top_best(ms, [k \in DOMAIN ms |-> ms[k].smartness_score])]

----------------------------------------------------------------------------
(* Scripts: what clients and sandbox environments do *)

\* Longest source text given to _run_code_safely, in top-level pieces.
MaxSrcLen == 2
\* Longest source text in an answer of a model.
MaxAnswerLen == 1
\* Most model reports in a summary given to the top-performer computation.
MaxReports == 2
\* Most entries in a host's listing, and most names in a model filter.
MaxListing == 2
MaxFilter == 2

RECURSIVE SeqsUpTo(_, _)
SeqsUpTo(S, n) ==
  IF n = 0 THEN {<<>>}
  ELSE LET shorter == SeqsUpTo(S, n - 1)
       IN  shorter \cup {Append(q, x) : q \in {p \in shorter : Len(p) = n - 1}, x \in S}

\* The sources a model can write, and the sources _run_code_safely can be given.
AnswerSources == SeqsUpTo(SrcTokens, MaxAnswerLen)
Sources == SeqsUpTo((SrcTokens \ {"'\\n'"}) \cup {"'<LF>'"}, MaxSrcLen)
CaseCounts == {CODING_TESTS[j].cases : j \in DOMAIN CODING_TESTS}

\* Names of models, the listings a host can return and the filters a request
\* can carry (<<>>: no filter).
ModelNames == {"etch-a", "Etch-B", "llama", "fetcher"}
ListingEntries ==
  {ListingEntry(sh, n) : sh \in {"str", "dict_name", "dict_model", "obj"},
                         n \in ModelNames \cup {""}}
Listings ==
  {[wrap |-> w, items |-> q] : w \in {"list", "pair"},
                               q \in SeqsUpTo(ListingEntries, MaxListing)}
Filters == SeqsUpTo({"etch-a", "llama", "gone"}, MaxFilter)

\* The values a report can hold: test_model gives a mean of None when no
\* latency was recorded and a positive mean otherwise; scores are numbers
\* (a report read back or built elsewhere can lack them).
Means == {JNull, JInt(1), JInt(2)}
Scores == {JNull, JInt(0), JInt(500)}
ReportLists ==
  UNION {[1..n -> {ModelReport(0, m, c, sm) : m \in Means, c \in Scores, sm \in Scores}] :
         n \in 0..MaxReports}
\* models_tested: the i-th report is that of the i-th model.
Named(ms) == [i \in DOMAIN ms |-> [ms[i] EXCEPT !.model = i]]

\* The environments a call of _run_code_safely can meet (one when the source
\* is rejected before anything is executed).
Envs(code_src, n) ==
  IF code_src = <<>> \/ Forbidden(code_src) # {}
  THEN {Env("none", [k |-> "timeout", out |-> StdoutEmpty])}
  ELSE {Env(f, [k |-> "timeout", out |-> StdoutEmpty]) : f \in Faults \ {"none"}}
         \cup {Env("none", c) : c \in ChildOutcomes(code_src, n)}

\* What a client can do for the prompt of a reasoning test.
SmartReplies(test) ==
  {ChatRaises("connection refused"), ChatRaises(""), ChatReturns({test.key}),
   ChatReturns({"other"}), ChatReturns({}), ChatReturns({"yes", "no"})}

\* What a client can do for the prompt of a coding test.
CodeReplies ==
  {ChatRaises("connection refused"), ChatRaises("")}
    \cup {ChatReturns(Answer(form, src)) :
            form \in {"fenced", "bare", "prose", "empty"}, src \in AnswerSources}

\* One coding test: what the client replies, and the environment of the
\* sandbox call that follows.
CodeInput(reply, env) == [reply |-> reply, env |-> env]

CodeInputs(test) ==
  UNION {{CodeInput(reply, env) :
            env \in Envs(extract_code(chat_with_model(reply).response), test.cases)} :
         reply \in CodeReplies}

\* The client that answers every reasoning test right, and the one that
\* answers every coding test with a correct solve() in a code block, run in a
\* sandbox where nothing fails.
PerfectSmart == [i \in DOMAIN SMARTNESS_TESTS |-> ChatReturns({SMARTNESS_TESTS[i].key})]
Solved(test, form, p) ==
  CodeInput(ChatReturns(Answer(form, <<"def solve">>)),
            Env("none", [k |-> "exit",
                         out |-> StdoutDict(JAbsent, JInt(p), JInt(test.cases),
                                            JOther("list"))]))
PerfectCode ==
  [j \in DOMAIN CODING_TESTS |-> Solved(CODING_TESTS[j], "fenced", CODING_TESTS[j].cases)]
PerfectWorld == World(PerfectSmart, PerfectCode)

\* Every subset of the reasoning tests failing in the chat call, the others
\* answered right; and one test answered in any way, the others right.
SmartScripts ==
  {[i \in DOMAIN SMARTNESS_TESTS |->
      IF i \in S THEN ChatRaises("connection refused") ELSE PerfectSmart[i]] :
   S \in SUBSET DOMAIN SMARTNESS_TESTS}
    \cup {[PerfectSmart EXCEPT ![i] = x] :
            i \in DOMAIN SMARTNESS_TESTS,
            x \in UNION {SmartReplies(SMARTNESS_TESTS[k]) : k \in DOMAIN SMARTNESS_TESTS}}

\* Every coding test failing in the chat call, solved (the answer in a code
\* block or bare), or solved but for one test case.
CodeCombos ==
  {[j \in DOMAIN CODING_TESTS |->
      CASE f[j] = "raise" -> CodeInput(ChatRaises("connection refused"),
                                       Env("none", [k |-> "timeout", out |-> StdoutEmpty]))
        [] f[j] = "solved" -> PerfectCode[j]
        [] f[j] = "solved bare" ->
             Solved(CODING_TESTS[j], "bare", CODING_TESTS[j].cases)
        [] f[j] = "partial" ->
             Solved(CODING_TESTS[j], "bare", CODING_TESTS[j].cases - 1)] :
   f \in [DOMAIN CODING_TESTS -> {"raise", "solved", "solved bare", "partial"}]}

\* The same, and one test met in any way, the others solved.
CodeScripts ==
  CodeCombos \cup UNION {{[PerfectCode EXCEPT ![j] = x] : x \in CodeInputs(CODING_TESTS[j])} :
                         j \in DOMAIN CODING_TESTS}

\* The worlds of the specifications with several runs: the perfect one, and one
\* in which the first sandbox call cannot create its temporary file.
WorldsRun ==
  {PerfectWorld,
   World(PerfectSmart,
         [PerfectCode EXCEPT ![1].env = Env("mktemp", [k |-> "timeout",
                                                       out |-> StdoutEmpty])])}

\* The worlds of the end-to-end specification: a client that fails or errs in
\* the reasoning tests or in the coding tests, and a source that writes its
\* own output in the last coding test.
WorldsE2E ==
  {World(sm, PerfectCode) : sm \in SmartScripts}
    \cup {World(PerfectSmart, cd) : cd \in CodeCombos}
    \cup {World(PerfectSmart,
                [PerfectCode EXCEPT ![Len(CODING_TESTS)] =
                   CodeInput(ChatReturns(Answer("fenced", <<"print; exit">>)),
                             Env("none", [k |-> "exit", out |-> o]))]) :
            o \in ForgedOutputs}

\* worlds names one of these sets.
WorldsOf(name) == IF name = "e2e" THEN WorldsE2E ELSE WorldsRun

----------------------------------------------------------------------------
(* The registry call a thread is at *)

CallPcs == {"L186", "L187", "L106", "L129", "L130", "L136", "L137", "L140",
            "L217", "L218", "L223", "L225", "L229", "L231", "L233", "L235",
            "L237", "ext_call"}

AtCall(t) == pc[t] \in CallPcs

CallOp(t) ==
  CASE pc[t] = "ext_call" -> extOp
    [] pc[t] = "L186" -> "set_running"
    [] pc[t] \in {"L187", "L129", "L136", "L217", "L223", "L225", "L229", "L233"}
         -> "append_message"
    [] pc[t] \in {"L130", "L137", "L140", "L235"} -> "set_progress"
    [] pc[t] \in {"L218", "L231"} -> "set_result"
    [] pc[t] \in {"L106", "L237"} -> "set_error"

\* Every call addressed to the run created first.
CallId_first(t) == CHOOSE i \in DOMAIN RUNS : \A j \in DOMAIN RUNS : i <= j

CallId(t) == IF t = Ext THEN UnknownId ELSE runId[t]

\* The msg / err_msg argument.
CallMsg(t) ==
  CASE pc[t] = "L187" -> Msg("Starting run...", "", 0, 0, 0)
    [] pc[t] = "L129" -> Msg("Testing model", "", idx[t], idx[t], total[t])
    [] pc[t] = "L136" -> Msg("Completed", "", idx[t], 0, 0)
    [] pc[t] = "L217" -> Msg("Tests complete; saving result", "", 0, 0, 0)
    [] pc[t] = "L223" -> Msg("Saved results", "", 0, 0, 0)
    [] pc[t] = "L225" -> Msg("Failed to save results", exc[t], 0, 0, 0)
    [] pc[t] = "L229" -> Msg("Saved run into DB", "", 0, 0, 0)
    [] pc[t] = "L233" -> Msg("Failed to persist run to DB", exc[t], 0, 0, 0)
    [] pc[t] \in {"L106", "L237"} -> Msg("", exc[t], 0, 0, 0)
    [] OTHER -> Msg("api", "", 0, 0, 0)

\* app.py:130  int(((idx - 1) / total) * 100)
ProgressBefore(i, n) == (100 * (i - 1)) \div n
\* app.py:137  int((idx / total) * 95)
ProgressAfter(i, n) == (95 * i) \div n

\* The pct argument.
CallPct(t) ==
  CASE pc[t] = "L130" -> ProgressBefore(idx[t], total[t])
    [] pc[t] = "L137" -> ProgressAfter(idx[t], total[t])
    [] pc[t] = "L140" -> 95
    [] pc[t] = "L235" -> 100
    [] OTHER -> 50

\* Where the thread goes when the call returns.
CallNext(t) ==
  CASE pc[t] = "ext_call" -> "ext_idle"
    [] pc[t] = "L186" -> "L187"
    [] pc[t] = "L187" -> "L103"
    [] pc[t] = "L106" -> "L192"
    [] pc[t] = "L129" -> "L130"
    [] pc[t] = "L130" -> "L132"
    [] pc[t] = "L136" -> "L137"
    [] pc[t] = "L137" -> "L127"
    [] pc[t] = "L140" -> "L192"
    [] pc[t] = "L217" -> "L218"
    [] pc[t] = "L218" -> "L221"
    [] pc[t] = "L223" -> "L228"
    [] pc[t] = "L225" -> "L228"
    [] pc[t] = "L229" -> "L230"
    [] pc[t] = "L231" -> "L235"
    [] pc[t] = "L233" -> "L235"
    [] pc[t] = "L235" -> "end"
    [] pc[t] = "L237" -> "end"

\* Where the thread goes when the call raises: the enclosing except clause of
\* bg, or out of the thread ("dead") where there is none.
CallErr(t) ==
  CASE pc[t] = "ext_call" -> "ext_idle"
    [] pc[t] \in {"L186", "L187", "L237"} -> "dead"
    [] pc[t] = "L223" -> "L225"
    [] pc[t] \in {"L229", "L231"} -> "L233"
    [] OTHER -> "L237"

----------------------------------------------------------------------------
(* Init *)

NoSnap == [status |-> "", progress |-> 0, messages |-> <<>>, result |-> None,
           db_id |-> 0]

\* No test_model call yet.
NoWorld == World(<<>>, <<>>)

NoRet == Raised("-")

InitWith(m, f, ws) ==
  /\ RUNS = <<>>
  /\ drawn = {}
  /\ locked = FALSE
  /\ lockBound = FALSE
  /\ waiter = NoThread
  /\ woken = FALSE
  /\ faults = 0
  /\ pc = [t \in Threads |-> IF t = Ext THEN "ext_idle" ELSE "idle"]
  /\ ph = [t \in Threads |-> "-"]
  /\ runId = [r \in Runs |-> UnknownId]
  /\ total = [r \in Runs |-> 0]
  /\ idx = [r \in Runs |-> 0]
  /\ summary = [r \in Runs |-> NewSummary(r, "")]
  /\ exc = [t \in Threads |-> ""]
  /\ extOp = "set_running"
  /\ extGot = None
  /\ maxModels = m
  /\ maxFaults = f
  /\ pollPc = "idle"
  /\ pollRef = None
  /\ pollTodo = {}
  /\ snap = NoSnap
  /\ attempted = [r \in Runs |-> <<>>]
  /\ runFailure = [r \in Runs |-> ""]
  /\ returned = [r \in Runs |-> FALSE]
  /\ persist = [r \in Runs |-> <<>>]
  /\ worlds = ws
  /\ script = [r \in Runs |-> NoWorld]
  /\ sbPc = "idle"
  /\ sbCode = <<>>
  /\ sbN = 0
  /\ tmpFile = "none"
  /\ tfName = FALSE
  /\ proc = "none"
  /\ sbOut = StdoutEmpty
  /\ sbRet = NoRet
  /\ evIn = [fn |-> "", arg |-> <<>>]
  /\ evOut = <<>>

Init == InitWith(MaxModels, MaxLockFaults, "run")

----------------------------------------------------------------------------
(* RUNS_LOCK: asyncio.Lock shared by the event loops of all threads *)

\* The call raises e: control goes to the enclosing except clause.
Raise(t, e) ==
  /\ pc' = [pc EXCEPT ![t] = CallErr(t)]
  /\ exc' = [exc EXCEPT ![t] = e]
  /\ ph' = [ph EXCEPT ![t] = "-"]

\* The message the call is about to log, recorded when the call is made.
Attempt(t) ==
  IF t \in Runs /\ CallOp(t) \in {"append_message", "set_error"}
  THEN [attempted EXCEPT ![t] = Append(@, CallMsg(t))]
  ELSE attempted

\* async with RUNS_LOCK -> Lock.acquire, first statement: the fast-path test
\* (not _locked and no live waiter).  Otherwise the slow path: _get_loop()
\* binds an unbound lock to the caller's loop and the caller waits on a new
\* future; a lock bound earlier belongs to another loop: RuntimeError.
AcquireTest(t) ==
  /\ AtCall(t) /\ ph[t] = "-"
  /\ attempted' = Attempt(t)
  /\ IF ~locked /\ waiter = NoThread
     THEN /\ ph' = [ph EXCEPT ![t] = "set"]
          /\ UNCHANGED <<pc, exc, lockBound, waiter, faults>>
     ELSE /\ faults < maxFaults
          /\ faults' = faults + 1
          /\ IF lockBound
             THEN /\ Raise(t, "Lock is bound to a different event loop")
                  /\ UNCHANGED <<lockBound, waiter>>
             ELSE /\ lockBound' = TRUE
                  /\ waiter' = t
                  /\ ph' = [ph EXCEPT ![t] = "wait"]
                  /\ UNCHANGED <<pc, exc>>
  /\ UNCHANGED <<RUNS, drawn, locked, woken, localVars>>

\* Lock.acquire: self._locked = True (fast path, or after the wait).
AcquireSet(t) ==
  /\ AtCall(t) /\ ph[t] = "set"
  /\ locked => faults < maxFaults
  /\ faults' = IF locked THEN faults + 1 ELSE faults
  /\ locked' = TRUE
  /\ ph' = [ph EXCEPT ![t] = "in"]
  /\ UNCHANGED <<RUNS, drawn, lockBound, waiter, woken, pc, exc, attempted, localVars>>

\* The waiting loop runs the waiter again: _waiters.remove(fut).
WaiterWake(t) ==
  /\ AtCall(t) /\ ph[t] = "wait" /\ waiter = t /\ woken
  /\ waiter' = NoThread
  /\ woken' = FALSE
  /\ ph' = [ph EXCEPT ![t] = "set"]
  /\ UNCHANGED <<RUNS, drawn, locked, lockBound, faults, pc, exc, attempted, localVars>>

\* The future was completed from another thread after the waiting loop went
\* to sleep in its selector: nothing wakes that loop, the thread stays there.
WaiterLost(t) ==
  /\ AtCall(t) /\ ph[t] = "wait" /\ waiter = t /\ woken
  /\ pc' = [pc EXCEPT ![t] = "hung"]
  /\ ph' = [ph EXCEPT ![t] = "-"]
  /\ UNCHANGED <<RUNS, drawn, lockVars, exc, attempted, localVars>>

\* async with exit -> Lock.release: clears the flag and completes the first
\* waiting future; raises if the flag is already clear.
Release(t) ==
  /\ AtCall(t) /\ ph[t] = "rel"
  /\ IF locked
     THEN /\ locked' = FALSE
          /\ woken' = (woken \/ waiter # NoThread)
          /\ pc' = [pc EXCEPT ![t] = CallNext(t)]
          /\ ph' = [ph EXCEPT ![t] = "-"]
          /\ exc' = exc
     ELSE /\ Raise(t, "Lock is not acquired.")
          /\ UNCHANGED <<locked, woken>>
  /\ UNCHANGED <<RUNS, drawn, lockBound, waiter, faults, attempted, localVars>>

----------------------------------------------------------------------------
(* run_manager: the statements inside async with RUNS_LOCK *)

set_running_26(id) == [RUNS EXCEPT ![id].status = "running"]
append_message_32(id, msg) == [RUNS EXCEPT ![id].messages = Append(@, msg)]
set_progress_38(id, pct) == [RUNS EXCEPT ![id].progress = pct]
set_result_44(id) == [RUNS EXCEPT ![id].status = "done"]
set_result_45(id, result) == [RUNS EXCEPT ![id].result = result]
set_result_46(id) == [RUNS EXCEPT ![id].progress = 100]
set_error_52(id) == [RUNS EXCEPT ![id].status = "error"]
set_error_53(id, err_msg) == [RUNS EXCEPT ![id].messages = Append(@, err_msg)]

\* if run_id in RUNS: ...
Known(id) == id \in DOMAIN RUNS

\* One statement of the body of the call thread t is in.
Body(t) ==
  /\ AtCall(t) /\ ph[t] \in {"in", "b2", "b3"}
  /\ LET id == CallId(t)
         op == CallOp(t)
     IN  IF ~Known(id)
         THEN /\ RUNS' = RUNS
              /\ ph' = [ph EXCEPT ![t] = "rel"]
         ELSE CASE op = "set_running" ->
                     /\ RUNS' = set_running_26(id)
                     /\ ph' = [ph EXCEPT ![t] = "rel"]
                [] op = "append_message" ->
                     /\ RUNS' = append_message_32(id, CallMsg(t))
                     /\ ph' = [ph EXCEPT ![t] = "rel"]
                [] op = "set_progress" ->
                     /\ RUNS' = set_progress_38(id, CallPct(t))
                     /\ ph' = [ph EXCEPT ![t] = "rel"]
                [] op = "set_result" /\ ph[t] = "in" ->
                     /\ RUNS' = set_result_44(id)
                     /\ ph' = [ph EXCEPT ![t] = "b2"]
                [] op = "set_result" /\ ph[t] = "b2" ->
                     /\ RUNS' = set_result_45(id, <<t>>)
                     /\ ph' = [ph EXCEPT ![t] = "b3"]
                [] op = "set_result" /\ ph[t] = "b3" ->
                     /\ RUNS' = set_result_46(id)
                     /\ ph' = [ph EXCEPT ![t] = "rel"]
                [] op = "set_error" /\ ph[t] = "in" ->
                     /\ RUNS' = set_error_52(id)
                     /\ ph' = [ph EXCEPT ![t] = "b2"]
                [] op = "set_error" /\ ph[t] = "b2" ->
                     /\ RUNS' = set_error_53(id, CallMsg(t))
                     /\ ph' = [ph EXCEPT ![t] = "rel"]
  /\ UNCHANGED <<drawn, lockVars, pc, exc, attempted, localVars>>

----------------------------------------------------------------------------
(* run_manager.create_run and app.start_run *)

\* start_run reaches create_run: run_id = uuid.uuid4().hex
create_run_11(r) ==
  /\ pc[r] = "idle"
  /\ runId' = [runId EXCEPT ![r] = uuid4]
  /\ drawn' = drawn \cup {uuid4}
  /\ pc' = [pc EXCEPT ![r] = "L12"]
  /\ UNCHANGED <<RUNS, lockVars, ph, total, idx, summary, exc, extOp, extGot,
                 cfgVars, pollVars, attempted, runFailure, returned, persist,
                 script, sbVars, evVars>>

\* A store that loses the new run.
StoreRun_lost(id, run) == RUNS

\* RUNS[run_id] = {...}: no lock is taken.
StoreRun(id, run) ==
  [i \in DOMAIN RUNS \cup {id} |-> IF i = id THEN run ELSE RUNS[i]]

create_run_12(r) ==
  /\ pc[r] = "L12"
  /\ RUNS' = StoreRun(runId[r], NewRun(runId[r], Metadata(r)))
  /\ pc' = [pc EXCEPT ![r] = "L240"]
  /\ UNCHANGED <<drawn, lockVars, ph, exc, attempted, localVars>>

\* thread = threading.Thread(target=bg, daemon=True); thread.start()
thread_start(r) ==
  /\ pc[r] = "L240"
  /\ pc' = [pc EXCEPT ![r] = "L186"]
  /\ UNCHANGED <<RUNS, drawn, lockVars, ph, exc, attempted, localVars>>

\* return jsonify({'run_id': run_id}): the request thread goes on as soon as
\* thread.start() has returned; it does not join the background thread.
start_run_242(r) ==
  /\ pc[r] \notin {"idle", "L12", "L240"}
  /\ ~returned[r]
  /\ returned' = [returned EXCEPT ![r] = TRUE]
  /\ UNCHANGED <<RUNS, drawn, lockVars, pc, ph, runId, total, idx, summary, exc,
                 extOp, extGot, cfgVars, pollVars, attempted, runFailure, persist,
                 script, sbVars, evVars>>

----------------------------------------------------------------------------
(* bg and _run_tests_sync: the steps between registry calls *)

bgFrame == <<RUNS, drawn, lockVars, ph, runId, extOp, extGot, cfgVars, pollVars,
            attempted, returned, sbVars, evVars>>

\* client.list() returns; names are normalised and filtered to test_models.
list_ok(r) ==
  /\ pc[r] = "L103"
  /\ \E n \in 0..maxModels :
       /\ total' = [total EXCEPT ![r] = n]
       /\ pc' = [pc EXCEPT ![r] = IF n = 0 THEN "L192" ELSE "L127"]
  /\ idx' = [idx EXCEPT ![r] = 0]
  /\ summary' = [summary EXCEPT ![r] = NewSummary(r, "")]
  /\ UNCHANGED <<bgFrame, persist, script, exc, runFailure>>

\* client.list() raises: except clause of _run_tests_sync (lines 104-107).
list_raises(r) ==
  /\ pc[r] = "L103"
  /\ exc' = [exc EXCEPT ![r] = "list failed"]
  /\ runFailure' = [runFailure EXCEPT ![r] = "list failed"]
  /\ summary' = [summary EXCEPT ![r] = NewSummary(r, "list failed")]
  /\ pc' = [pc EXCEPT ![r] = "L106"]
  /\ UNCHANGED <<bgFrame, persist, script, total, idx>>

\* A loop that takes the selected models last to first.
for_127_reversed(r) ==
  /\ pc[r] = "L127"
  /\ IF idx[r] # 1 /\ total[r] > 0
     THEN /\ idx' = [idx EXCEPT ![r] = IF @ = 0 THEN total[r] ELSE @ - 1]
          /\ pc' = [pc EXCEPT ![r] = "L129"]
     ELSE /\ idx' = idx
          /\ pc' = [pc EXCEPT ![r] = "L140"]
  /\ UNCHANGED <<bgFrame, persist, script, total, summary, exc, runFailure>>

\* for idx, mn in enumerate(test_models, start=1)
for_127(r) ==
  /\ pc[r] = "L127"
  /\ IF idx[r] < total[r]
     THEN /\ idx' = [idx EXCEPT ![r] = @ + 1]
          /\ pc' = [pc EXCEPT ![r] = "L129"]
     ELSE /\ idx' = idx
          /\ pc' = [pc EXCEPT ![r] = "L140"]
  /\ UNCHANGED <<bgFrame, persist, script, total, summary, exc, runFailure>>

\* res = test_model(...) returns; summary['models_tested'].append(res)
test_model_ok(r) ==
  /\ pc[r] = "L132"
  /\ \E w \in WorldsOf(worlds) :
       /\ test_model(w).exc = ""
       /\ script' = [script EXCEPT ![r] = w]
       /\ summary' = [summary EXCEPT ![r].models_tested =
                        Append(@, [model |-> idx[r],
                                   smartness_score |-> test_model(w).smartness_score,
                                   code_score |-> test_model(w).code_score])]
  /\ pc' = [pc EXCEPT ![r] = "L136"]
  /\ UNCHANGED <<bgFrame, persist, total, idx, exc, runFailure>>

\* test_model raises: the exception leaves _run_tests_sync (no except there).
test_model_raises(r) ==
  /\ pc[r] = "L132"
  /\ \E w \in WorldsOf(worlds) :
       /\ test_model(w).exc # ""
       /\ script' = [script EXCEPT ![r] = w]
       /\ exc' = [exc EXCEPT ![r] = test_model(w).exc]
       /\ runFailure' = [runFailure EXCEPT ![r] = test_model(w).exc]
  /\ pc' = [pc EXCEPT ![r] = "L237"]
  /\ UNCHANGED <<bgFrame, persist, total, idx, summary>>

\* lines 192-215: summary['top_summary'] = top
top_summary(r) ==
  /\ pc[r] = "L192"
  /\ summary' = [summary EXCEPT ![r].has_top = TRUE]
  /\ pc' = [pc EXCEPT ![r] = "L217"]
  /\ UNCHANGED <<bgFrame, persist, script, total, idx, exc, runFailure>>

\* lines 220-222: latest_results.json written
write_ok(r) ==
  /\ pc[r] = "L221"
  /\ pc' = [pc EXCEPT ![r] = "L223"]
  /\ persist' = [persist EXCEPT ![r] = Append(@, "write_ok")]
  /\ UNCHANGED <<bgFrame, script, total, idx, summary, exc, runFailure>>

write_raises(r) ==
  /\ pc[r] = "L221"
  /\ exc' = [exc EXCEPT ![r] = "write failed"]
  /\ pc' = [pc EXCEPT ![r] = "L225"]
  /\ persist' = [persist EXCEPT ![r] = Append(@, "write_raises")]
  /\ UNCHANGED <<bgFrame, script, total, idx, summary, runFailure>>

\* run_db_id = db.save_run(summary)
save_run_ok(r) ==
  /\ pc[r] = "L228"
  /\ pc' = [pc EXCEPT ![r] = "L229"]
  /\ persist' = [persist EXCEPT ![r] = Append(@, "save_run_ok")]
  /\ UNCHANGED <<bgFrame, script, total, idx, summary, exc, runFailure>>

save_run_raises(r) ==
  /\ pc[r] = "L228"
  /\ exc' = [exc EXCEPT ![r] = "save_run failed"]
  /\ pc' = [pc EXCEPT ![r] = "L233"]
  /\ persist' = [persist EXCEPT ![r] = Append(@, "save_run_raises")]
  /\ UNCHANGED <<bgFrame, script, total, idx, summary, runFailure>>

\* summary['_db_id'] = run_db_id: the dict already stored as the run's result
\* (line 218) is changed, outside the lock.
set_db_id_230(r) ==
  /\ pc[r] = "L230"
  /\ summary' = [summary EXCEPT ![r].db_id = 1]
  /\ pc' = [pc EXCEPT ![r] = "L231"]
  /\ UNCHANGED <<bgFrame, persist, script, total, idx, exc, runFailure>>

----------------------------------------------------------------------------
(* A caller of the registry API with an unknown run_id *)

ApiOps == {"set_running", "append_message", "set_progress", "set_result", "set_error"}

ext_call(op) ==
  /\ pc[Ext] = "ext_idle"
  /\ extOp' = op
  /\ exc' = [exc EXCEPT ![Ext] = ""]
  /\ pc' = [pc EXCEPT ![Ext] = "ext_call"]
  /\ UNCHANGED <<RUNS, drawn, lockVars, ph, runId, total, idx, summary, extGot,
                 cfgVars, pollVars, attempted, runFailure, returned, persist,
                 script, sbVars, evVars>>

ext_get_run ==
  /\ pc[Ext] = "ext_idle"
  /\ extGot' = get_run(UnknownId)
  /\ UNCHANGED <<RUNS, drawn, lockVars, pc, ph, runId, total, idx, summary, exc,
                 extOp, cfgVars, pollVars, attempted, runFailure, returned, persist,
                 script, sbVars, evVars>>

----------------------------------------------------------------------------
(* app.run_status: a poller *)

Fields == {"status", "messages", "progress", "result"}

pollFrame == <<RUNS, drawn, lockVars, pc, ph, runId, total, idx, summary, exc,
               extOp, extGot, cfgVars, attempted, runFailure, returned, persist,
                 script, sbVars, evVars>>

\* r = arun(run_manager.get_run(run_id)): no lock is taken; r is the run dict
\* itself, not a copy.  'not found' when r is None.
run_status_247(id) ==
  /\ pollPc = "idle"
  /\ pollRef' = get_run(id)
  /\ snap' = NoSnap
  /\ IF get_run(id) = None
     THEN pollPc' = "idle" /\ pollTodo' = {}
     ELSE pollPc' = "reading" /\ pollTodo' = Fields
  /\ UNCHANGED pollFrame

\* The value a reader sees for field f of the run with the given id; the result
\* is the summary object itself, read through the reference.
ReadField(id, f, s) ==
  CASE f = "status" -> [s EXCEPT !.status = RUNS[id].status]
    [] f = "messages" -> [s EXCEPT !.messages = RUNS[id].messages]
    [] f = "progress" -> [s EXCEPT !.progress = RUNS[id].progress]
    [] f = "result" ->
         [s EXCEPT !.result = RUNS[id].result,
                   !.db_id = IF RUNS[id].result = None THEN 0
                             ELSE summary[RUNS[id].result[1]].db_id]

\* jsonify(r): the serialiser reads the fields of the live dict one after the
\* other (in key order or insertion order, depending on the JSON provider),
\* while the background thread goes on.
run_status_250(f) ==
  /\ pollPc = "reading"
  /\ f \in pollTodo
  /\ snap' = ReadField(pollRef[1], f, snap)
  /\ pollTodo' = pollTodo \ {f}
  /\ pollPc' = IF pollTodo = {f} THEN "idle" ELSE "reading"
  /\ UNCHANGED <<pollRef, pollFrame>>

----------------------------------------------------------------------------
(* ollama_etch_tester._run_code_safely: steps *)

sbFrame == <<RUNS, drawn, lockVars, pc, ph, runId, total, idx, summary, exc, extOp,
            extGot, cfgVars, pollVars, attempted, runFailure, returned, persist, script,
            evVars>>

\* passed, total, test_details = _run_code_safely(code, test["test_cases"])
run_code_call(code_src, n) ==
  /\ sbPc \in {"idle", "ret", "raised"}
  /\ sbPc' = "L282"
  /\ sbCode' = code_src
  /\ sbN' = n
  /\ tmpFile' = "none"
  /\ tfName' = FALSE
  /\ proc' = "none"
  /\ sbOut' = StdoutEmpty
  /\ sbRet' = NoRet
  /\ UNCHANGED sbFrame

\* if not code_src: return ...
run_code_282 ==
  /\ sbPc = "L282"
  /\ IF sbCode = <<>>
     THEN sbRet' = Return_283(sbN) /\ sbPc' = "ret"
     ELSE sbRet' = sbRet /\ sbPc' = "L287"
  /\ UNCHANGED <<sbFrame, sbCode, sbN, tmpFile, tfName, proc, sbOut>>

\* for pattern in dangerous: if pattern in code_src: return ...
run_code_287 ==
  /\ sbPc = "L287"
  /\ IF Forbidden(sbCode) # {}
     THEN sbRet' = Return_289(sbCode, sbN) /\ sbPc' = "ret"
     ELSE sbRet' = sbRet /\ sbPc' = "L347"
  /\ UNCHANGED <<sbFrame, sbCode, sbN, tmpFile, tfName, proc, sbOut>>

\* tf = tempfile.NamedTemporaryFile(...)
run_code_347_ok ==
  /\ sbPc = "L347"
  /\ tmpFile' = "exists"
  /\ sbPc' = "L348"
  /\ UNCHANGED <<sbFrame, sbCode, sbN, tfName, proc, sbOut, sbRet>>

\* NamedTemporaryFile raises: tf is still None.
run_code_347_raises ==
  /\ sbPc = "L347"
  /\ sbRet' = Raised("OSError")
  /\ sbPc' = "L377"
  /\ UNCHANGED <<sbFrame, sbCode, sbN, tmpFile, tfName, proc, sbOut>>

\* tf.write(harness); tf.flush(); tf_name = tf.name; tf.close()
run_code_348_ok ==
  /\ sbPc = "L348"
  /\ tfName' = TRUE
  /\ sbPc' = "L354"
  /\ UNCHANGED <<sbFrame, sbCode, sbN, tmpFile, proc, sbOut, sbRet>>

\* tf.write or tf.flush raises: tf_name is not assigned.
run_code_348_raises ==
  /\ sbPc = "L348"
  /\ sbRet' = Raised("OSError")
  /\ sbPc' = "L377"
  /\ UNCHANGED <<sbFrame, sbCode, sbN, tmpFile, tfName, proc, sbOut>>

\* subprocess.run(...) starts the child.
run_code_354_spawn ==
  /\ sbPc = "L354"
  /\ proc' = "running"
  /\ sbPc' = "L354_wait"
  /\ UNCHANGED <<sbFrame, sbCode, sbN, tmpFile, tfName, sbOut, sbRet>>

\* subprocess.run(...) cannot start the child.
run_code_354_raises ==
  /\ sbPc = "L354"
  /\ sbRet' = Raised("OSError")
  /\ sbPc' = "L377"
  /\ UNCHANGED <<sbFrame, sbCode, sbN, tmpFile, tfName, proc, sbOut>>

\* The child exits before the deadline, leaving out on stdout.
child_exits ==
  /\ sbPc = "L354_wait" /\ proc = "running"
  /\ \E c \in ChildOutcomes(sbCode, sbN) : c.k = "exit" /\ sbOut' = c.out
  /\ proc' = "exited"
  /\ sbPc' = "L363"
  /\ UNCHANGED <<sbFrame, sbCode, sbN, tmpFile, tfName, sbRet>>

\* The child exits, and what it wrote cannot be decoded (text=True).
child_undecodable ==
  /\ sbPc = "L354_wait" /\ proc = "running"
  /\ [k |-> "undecodable", out |-> StdoutEmpty] \in ChildOutcomes(sbCode, sbN)
  /\ proc' = "exited"
  /\ sbRet' = Raised("UnicodeDecodeError")
  /\ sbPc' = "L377"
  /\ UNCHANGED <<sbFrame, sbCode, sbN, tmpFile, tfName, sbOut>>

\* A deadline that never passes.
timeout_never == FALSE

\* The deadline passes with the child still running: subprocess.run kills it,
\* waits for it and raises TimeoutExpired.
timeout_expires ==
  /\ sbPc = "L354_wait" /\ proc = "running"
  /\ proc' = "killed"
  /\ sbPc' = "L361"
  /\ UNCHANGED <<sbFrame, sbCode, sbN, tmpFile, tfName, sbOut, sbRet>>

\* except subprocess.TimeoutExpired: return ...
run_code_361 ==
  /\ sbPc = "L361"
  /\ sbRet' = Return_361(sbN)
  /\ sbPc' = "L377"
  /\ UNCHANGED <<sbFrame, sbCode, sbN, tmpFile, tfName, proc, sbOut>>

\* Lines 363-375.
run_code_363 ==
  /\ sbPc = "L363"
  /\ sbRet' = Parse(sbOut, sbN)
  /\ sbPc' = "L377"
  /\ UNCHANGED <<sbFrame, sbCode, sbN, tmpFile, tfName, proc, sbOut>>

\* finally: if tf: try: os.unlink(tf_name) except Exception: pass.  With
\* tf_name unassigned the unlink raises NameError, which is swallowed.
run_code_377 ==
  /\ sbPc = "L377"
  /\ tmpFile' = IF tmpFile = "exists" /\ tfName THEN "gone" ELSE tmpFile
  /\ sbPc' = IF sbRet.exc = "" THEN "ret" ELSE "raised"
  /\ UNCHANGED <<sbFrame, sbCode, sbN, tfName, proc, sbOut, sbRet>>

----------------------------------------------------------------------------
(* The batteries and test_model applied to a script (one application from
   the initial state) *)

evFrame == <<RUNS, drawn, lockVars, pc, ph, runId, total, idx, summary, exc, extOp,
            extGot, cfgVars, pollVars, attempted, runFailure, returned, persist, script,
            sbVars>>

apply_smartness(replies) ==
  /\ evIn.fn = ""
  /\ evIn' = [fn |-> "_run_smartness_tests", arg |-> replies]
  /\ evOut' = run_smartness_tests(replies)
  /\ UNCHANGED evFrame

apply_coding(inputs) ==
  /\ evIn.fn = ""
  /\ evIn' = [fn |-> "_run_coding_tests", arg |-> inputs]
  /\ evOut' = run_coding_tests(inputs)
  /\ UNCHANGED evFrame

\* Lines 115-120 applied to a listing and a filter.
apply_select(raw, models) ==
  /\ evIn.fn = ""
  /\ evIn' = [fn |-> "select", arg |-> [raw |-> raw, models |-> models]]
  /\ evOut' = [names |-> normalize_models(raw),
               test_models |-> select_models(models, normalize_models(raw))]
  /\ UNCHANGED evFrame

\* The top-performer computation applied to a list of model reports.
apply_top(ms) ==
  /\ evIn.fn = ""
  /\ evIn' = [fn |-> "top_summary", arg |-> Named(ms)]
  /\ evOut' = compute_top(Named(ms))
  /\ UNCHANGED evFrame

apply_test_model(w) ==
  /\ evIn.fn = ""
  /\ evIn' = [fn |-> "test_model", arg |-> w]
  /\ evOut' = test_model(w)
  /\ UNCHANGED evFrame

----------------------------------------------------------------------------
(* Specifications *)

\* The lock as one thread alone uses it.
LockStepSolo(t) ==
  \/ AcquireTest(t)
  \/ AcquireSet(t)
  \/ Body(t)
  \/ Release(t)

LockStep(t) ==
  \/ LockStepSolo(t)
  \/ WaiterWake(t)
  \/ WaiterLost(t)

BgStep(r) ==
  \/ create_run_11(r)
  \/ create_run_12(r)
  \/ thread_start(r)
  \/ list_ok(r)
  \/ list_raises(r)
  \/ for_127(r)
  \/ test_model_ok(r)
  \/ test_model_raises(r)
  \/ top_summary(r)
  \/ write_ok(r)
  \/ write_raises(r)
  \/ save_run_ok(r)
  \/ save_run_raises(r)
  \/ set_db_id_230(r)

ExtStep ==
  \/ \E op \in ApiOps : ext_call(op)
  \/ ext_get_run

PollStep ==
  \/ \E id \in Ids \cup {UnknownId} : run_status_247(id)
  \/ \E f \in Fields : run_status_250(f)

\* NRuns concurrent start_run requests and their background threads.
Next ==
  \/ \E r \in Runs : LockStep(r)
  \/ \E r \in Runs : BgStep(r)

Spec == Init /\ [][Next]_vars

\* One run with up to MaxModelsSolo selected models.
NextSolo == LockStepSolo(1) \/ BgStep(1)

SpecSolo == InitWith(MaxModelsSolo, MaxLockFaults, "run") /\ [][NextSolo]_vars

\* One run, the request thread that started it, and a poller of run_status.
NextPoll == LockStepSolo(1) \/ BgStep(1) \/ start_run_242(1) \/ PollStep

SpecPoll == Init /\ [][NextPoll]_vars

\* One run and a thread calling the registry functions with an unknown run_id.
NextApi == LockStep(1) \/ LockStep(Ext) \/ BgStep(1) \/ ExtStep

SpecApi == InitWith(MaxModels, MaxLockFaultsApi, "run") /\ [][NextApi]_vars

\* One run against every client and sandbox environment of WorldsE2E.
SpecE2E == InitWith(MaxModels, MaxLockFaults, "e2e") /\ [][NextSolo]_vars

\* Calls of _run_code_safely, one after the other.
SandboxRun ==
  \/ run_code_282
  \/ run_code_287
  \/ run_code_347_ok
  \/ run_code_347_raises
  \/ run_code_348_ok
  \/ run_code_348_raises
  \/ run_code_354_spawn
  \/ run_code_354_raises
  \/ child_exits
  \/ child_undecodable
  \/ timeout_expires
  \/ run_code_361
  \/ run_code_363
  \/ run_code_377

NextSandbox ==
  \/ \E src \in Sources, n \in CaseCounts : run_code_call(src, n)
  \/ SandboxRun

SpecSandbox == Init /\ [][NextSandbox]_vars

\* The thread inside _run_code_safely keeps running, and the deadline of
\* subprocess.run passes if the child has not exited.
SpecSandboxFair == SpecSandbox /\ WF_vars(SandboxRun)

\* The batteries and test_model applied to the scripts.
NextEval ==
  \/ \E replies \in SmartScripts : apply_smartness(replies)
  \/ \E inputs \in CodeScripts : apply_coding(inputs)
  \/ \E w \in WorldsE2E : apply_test_model(w)

SpecEval == Init /\ [][NextEval]_vars

\* The top-performer computation applied to lists of model reports.
NextTop == \E ms \in ReportLists : apply_top(ms)

SpecTop == Init /\ [][NextTop]_vars

\* The selection of the models to test applied to listings and filters.
NextSelect == \E raw \in Listings, models \in Filters : apply_select(raw, models)

SpecSelect == Init /\ [][NextSelect]_vars

----------------------------------------------------------------------------
(* Properties *)

Rank(s) == CASE s = "pending" -> 0 [] s = "running" -> 1 [] OTHER -> 2

\* The thread is between acquire and release of RUNS_LOCK, at the statements
\* of the async with block.
InBody(t) == AtCall(t) /\ ph[t] \in {"in", "b2", "b3"}

\* The run of request r is in the registry (create_run has returned).
Created(r) == pc[r] \notin {"idle", "L12"}

\* The background thread of r will take no further step: it returned, died of
\* an uncaught exception, or sleeps forever in its event loop.
Ended(r) == pc[r] \in {"end", "dead", "hung"}

\* The summary object some run holds as its result changes in this step.
StoredResultChanges ==
  \E r \in Runs : /\ summary'[r] # summary[r]
                  /\ \E id \in DOMAIN RUNS : RUNS[id].result = <<r>>

\* C1: the status of every run only moves forward in the order
\* pending < running < {done, error}; in particular a run that reached error
\* never becomes done and a run that reached done never becomes error.
C1_StatusMovesForward ==
  [][\A id \in DOMAIN RUNS :
       RUNS'[id].status # RUNS[id].status
         => Rank(RUNS[id].status) < Rank(RUNS'[id].status)]_vars

\* C2: when the background task hit a run-level failure (client.list() raised,
\* test_model raised) and has finished, the run's status is error and the
\* failure's text is the last message of its log.
C2_FailureEndsInError ==
  \A r \in Runs :
    (pc[r] = "end" /\ runFailure[r] # "") =>
       LET run == RUNS[runId[r]]
       IN  /\ run.status = "error"
           /\ run.messages # <<>>
           /\ run.messages[Len(run.messages)] = Msg("", runFailure[r], 0, 0, 0)

\* C3: a run whose background thread will take no further step has reached
\* done or error (no run is left pending or running forever).
C3_EndedRunIsTerminal ==
  \A r \in Runs : Ended(r) => RUNS[runId[r]].status \in {"done", "error"}

\* C4: in every reachable state, a run whose result is not None has status done.
C4_ResultImpliesDone ==
  \A id \in DOMAIN RUNS : RUNS[id].result # None => RUNS[id].status = "done"

\* C5: progress stays within 0..100, and while a run's status is running its
\* progress never decreases from one registry update to the next.
C5_ProgressMonotone ==
  /\ [](\A id \in DOMAIN RUNS : RUNS[id].progress \in 0..100)
  /\ [][\A id \in DOMAIN RUNS :
          (RUNS[id].status = "running" /\ RUNS'[id].status = "running")
            => RUNS'[id].progress >= RUNS[id].progress]_vars

\* C6: concurrent create_run calls yield distinct run_ids, all present in the
\* registry, and no append is lost: whenever a thread is not inside a registry
\* call, the log of its run holds every message the thread passed to
\* append_message / set_error, in the order it passed them.
C6_NoLostAppend ==
  /\ \A r \in Runs : Created(r) => runId[r] \in DOMAIN RUNS
  /\ \A r1, r2 \in Runs :
       (r1 # r2 /\ pc[r1] # "idle" /\ pc[r2] # "idle") => runId[r1] # runId[r2]
  /\ \A r \in Runs :
       (Created(r) /\ ph[r] = "-") => RUNS[runId[r]].messages = attempted[r]

\* C7: every change of registry state (a run created or changed, the summary
\* object stored as a result changed) is made by a thread that is inside
\* async with RUNS_LOCK with the lock taken, and no two threads are inside a
\* registry mutation at the same time.
C7_MutationsUnderLock ==
  /\ [](Cardinality({t \in Threads : InBody(t)}) <= 1)
  /\ [][(RUNS' # RUNS \/ StoredResultChanges)
          => (locked /\ \E t \in Threads : InBody(t))]_vars

\* C8: while a poller is reading a run (between get_run and the end of
\* jsonify), no thread is inside a registry mutation.
C8_ReadsExcludeWrites ==
  pollPc = "reading" => \A t \in Threads : ~InBody(t)

\* C9: a registry call with a run_id that is not in the registry returns
\* without raising and leaves the registry unchanged; get_run returns None.
C9_UnknownIdIsNoOp ==
  /\ [](exc[Ext] = "" /\ extGot = None)
  /\ [][(pc[Ext] = "ext_call" /\ <<pc[Ext], ph[Ext]>>' # <<pc[Ext], ph[Ext]>>)
          => RUNS' = RUNS]_vars

\* C10: create_run stores its run under a run_id that was not in the registry;
\* the new run has status pending, an empty log, progress 0, result None and
\* the given metadata; every run that was there before is unchanged.
C10_CreateRun ==
  [][\A r \in Runs :
       (pc[r] = "L12" /\ pc'[r] = "L240") =>
          /\ runId[r] \notin DOMAIN RUNS
          /\ DOMAIN RUNS' = DOMAIN RUNS \cup {runId[r]}
          /\ RUNS'[runId[r]].status = "pending"
          /\ RUNS'[runId[r]].messages = <<>>
          /\ RUNS'[runId[r]].progress = 0
          /\ RUNS'[runId[r]].result = None
          /\ RUNS'[runId[r]].metadata = [host |-> r, models |-> <<>>, repeat |-> 1]
          /\ \A i \in DOMAIN RUNS : RUNS'[i] = RUNS[i]]_vars

\* A run has just been created while an older run is already past pending.
C10_Witness ==
  \E r \in Runs :
    /\ pc[r] = "L240"
    /\ runId[r] \in DOMAIN RUNS
    /\ RUNS[runId[r]].status = "pending"
    /\ \E i \in DOMAIN RUNS : i # runId[r] /\ RUNS[i].messages # <<>>

\* C11: start_run registers the run before it starts the background thread and
\* returns without waiting for it: the return is possible wherever the
\* background thread is; once start_run has returned the run_id, the run is in
\* the registry, run_status(run_id) goes on to serialise it (never 'not
\* found'), and a status it reads is pending, running, done or error.
C11_RegisteredBeforeReturn ==
  /\ [](\A r \in Runs : returned[r] => get_run(runId[r]) # None)
  /\ [](\A r \in Runs :
          (pc[r] \notin {"idle", "L12", "L240"} /\ ~returned[r])
            => ENABLED start_run_242(r))
  /\ [][\A r \in Runs :
          (returned[r] /\ run_status_247(runId[r]))
            => (pollRef' # None /\ pollPc' = "reading")]_vars
  /\ [](\A r \in Runs :
          (returned[r] /\ pollRef = <<runId[r]>> /\ "status" \notin pollTodo
             /\ pollPc = "reading")
            => snap.status \in {"pending", "running", "done", "error"})

\* start_run has returned while the background thread has not yet made its
\* first registry call, and a poller is reading the run, still pending.
C11_Witness ==
  /\ returned[1]
  /\ pc[1] = "L186" /\ ph[1] = "-"
  /\ pollPc = "reading" /\ pollRef = <<runId[1]>>
  /\ "status" \notin pollTodo /\ snap.status = "pending"

\* The client answers every reasoning test with the right answer and every
\* coding test with a correct solve(), which passes all its test cases in a
\* sandbox where nothing fails.
PerfectClient(w) ==
  /\ w.smart = PerfectSmart
  /\ DOMAIN w.code = DOMAIN CODING_TESTS
  /\ \A j \in DOMAIN CODING_TESTS :
        \E form \in {"fenced", "bare"} :
           w.code[j] = Solved(CODING_TESTS[j], form, CODING_TESTS[j].cases)

DenyListed ==
  sbCode = <<>> \/ \E k \in DOMAIN dangerous : Contains(dangerous[k], sbCode)

\* C13: for a source that is empty or contains a deny-listed substring,
\* _run_code_safely returns (0, number of test cases, reason), the reason
\* naming a deny-listed pattern the source contains, and nothing is executed:
\* at no point of the call does a temporary file exist or a process run.
C13_DenyListedNeverRuns ==
  (sbPc # "idle" /\ DenyListed) =>
     /\ tmpFile = "none"
     /\ proc = "none"
     /\ sbPc \in {"L282", "L287", "ret"}
     /\ sbPc = "ret" =>
          /\ sbRet.exc = ""
          /\ sbRet.passed = JInt(0)
          /\ sbRet.total = JInt(sbN)
          /\ IF sbCode = <<>>
             THEN sbRet.error = Reason("No code extracted from response", "")
             ELSE /\ sbRet.error.text = "Forbidden pattern"
                  /\ \E k \in DOMAIN dangerous : sbRet.error.pattern = dangerous[k]
                  /\ Contains(sbRet.error.pattern, sbCode)

\* A source that defines solve() and calls open( has been rejected.
C13_Witness ==
  /\ sbPc = "ret"
  /\ sbCode = <<"def solve", "open(">>
  /\ sbRet.error = Reason("Forbidden pattern", "open(")
  /\ sbRet.passed = JInt(0)

\* C14: every call of _run_code_safely comes back to its caller; a child that
\* is still running at the deadline is killed, no child is left running when
\* the call is over, and after a kill the call returns 0 passed, the number of
\* test cases, and the timeout reason.
C14_SandboxCallComesBack ==
  /\ (sbPc \notin {"idle", "ret", "raised"}) ~> (sbPc \in {"ret", "raised"})
  /\ [](sbPc \in {"ret", "raised"} => proc # "running")
  /\ [](sbPc = "L361" => proc = "killed")
  /\ []((sbPc \in {"ret", "raised"} /\ proc = "killed") =>
          (sbPc = "ret" /\ sbRet = Return_361(sbN)))

\* A source that loops for ever has been run, killed, and reported.
C14_Witness ==
  /\ sbPc = "ret"
  /\ \E i \in DOMAIN sbCode : sbCode[i] = "while True"
  /\ proc = "killed"
  /\ tmpFile = "gone"
  /\ sbRet.error.text = "Execution timeout"

\* C15: every sandbox failure is returned as data: _run_code_safely never
\* raises, and but for the counts printed by the harness it returns 0 passed,
\* total = number of test cases and a reason.
C15_SandboxFailureIsData ==
  /\ sbPc # "raised"
  /\ (sbPc = "ret" /\ ~(proc = "exited" /\ sbOut.t = "dict" /\ sbOut.error.t = "absent")) =>
        /\ sbRet.passed = JInt(0)
        /\ sbRet.total = JInt(sbN)
        /\ sbRet.error # NoReason

RECURSIVE SumOver(_, _)
SumOver(f, n) == IF n = 0 THEN 0 ELSE f[n] + SumOver(f, n - 1)

\* C16: a failed chat call never aborts a battery: whatever the chat calls
\* that raise, each battery returns one outcome per test of its table, in
\* table order; a test whose chat call failed is recorded as failed with the
\* error, its points count toward the total and it earns 0.
C16_ChatFailureIsAbsorbed ==
  /\ evIn.fn = "_run_smartness_tests" =>
       /\ DOMAIN evOut.tests = DOMAIN SMARTNESS_TESTS
       /\ \A i \in DOMAIN SMARTNESS_TESTS :
             /\ evOut.tests[i].name = SMARTNESS_TESTS[i].name
             /\ evIn.arg[i].raises =>
                   (~evOut.tests[i].passed /\ evOut.tests[i].error = <<evIn.arg[i].msg>>)
       /\ evOut.total_points =
            SumOver([i \in DOMAIN SMARTNESS_TESTS |-> SMARTNESS_TESTS[i].points],
                    Len(SMARTNESS_TESTS))
       /\ evOut.earned_points =
            SumOver([i \in DOMAIN SMARTNESS_TESTS |->
                       IF evOut.tests[i].passed THEN SMARTNESS_TESTS[i].points ELSE 0],
                    Len(SMARTNESS_TESTS))
  /\ evIn.fn = "_run_coding_tests" =>
       /\ evOut.exc = ""
       /\ DOMAIN evOut.tests = DOMAIN CODING_TESTS
       /\ \A j \in DOMAIN CODING_TESTS :
             /\ evOut.tests[j].name = CODING_TESTS[j].name
             /\ evIn.arg[j].reply.raises =>
                   /\ evOut.tests[j].earned = 0
                   /\ evOut.tests[j].passed_tests = JInt(0)
                   /\ evOut.tests[j].error = <<evIn.arg[j].reply.msg>>
                   /\ ~evOut.tests[j].ran
       /\ evOut.total_points =
            SumOver([j \in DOMAIN CODING_TESTS |-> CODING_TESTS[j].points],
                    Len(CODING_TESTS))
       /\ evOut.earned_points =
            SumOver([j \in DOMAIN CODING_TESTS |-> evOut.tests[j].earned],
                    Len(CODING_TESTS))

\* C17: for every outcome of a coding test that went to the sandbox,
\* passed <= total, earned = floor(points * passed / total) when total > 0 and
\* 0 otherwise, 0 <= earned <= points, and code_score is within 0..100
\* (0..1000 tenths) -- whatever the sandboxed process wrote to its output.
C17_PartialCreditInRange ==
  (evIn.fn = "_run_coding_tests" /\ evOut.exc = "") =>
     /\ evOut.score \in 0..1000
     /\ \A j \in DOMAIN evOut.tests :
           LET o == evOut.tests[j]
           IN  o.ran =>
                 /\ o.passed_tests.t = "int" /\ o.total_tests.t = "int"
                 /\ o.passed_tests.v <= o.total_tests.v
                 /\ o.earned = IF o.total_tests.v > 0
                               THEN (o.points * o.passed_tests.v) \div o.total_tests.v
                               ELSE 0
                 /\ o.earned \in 0..o.points

\* The run of request r has ended after a hand-over of its summary to
\* persistence failed.
PersistenceFailed(r, what) == \E i \in DOMAIN persist[r] : persist[r][i] = what

\* C18: a run whose results file could not be written or whose summary could
\* not be saved to the database still ends with status done, progress 100 and
\* its result set, and each failure is a message of its log.
C18_PersistenceFailureNotFatal ==
  \A r \in Runs :
    (pc[r] = "end"
       /\ (PersistenceFailed(r, "write_raises") \/ PersistenceFailed(r, "save_run_raises")))
    => LET run == RUNS[runId[r]]
           logged(m) == \E i \in DOMAIN run.messages : run.messages[i] = m
       IN  /\ run.status = "done"
           /\ run.progress = 100
           /\ run.result = <<r>>
           /\ PersistenceFailed(r, "write_raises")
                 => logged(Msg("Failed to save results", "write failed", 0, 0, 0))
           /\ PersistenceFailed(r, "save_run_raises")
                 => logged(Msg("Failed to persist run to DB", "save_run failed", 0, 0, 0))

\* C19: runs are independent: a step of another thread (a registry mutation
\* addressed to another run, or a step of another run's background task)
\* leaves the status, log, progress and result of run B, and the summary
\* object its result refers to, unchanged.
C19_RunsIndependent ==
  [][\A b \in Runs :
       (Created(b) /\ pc'[b] = pc[b] /\ ph'[b] = ph[b]) =>
          /\ RUNS'[runId[b]] = RUNS[runId[b]]
          /\ summary'[b] = summary[b]]_vars

\* Both runs are past pending, and each log holds only its own messages.
C19_Witness ==
  /\ \A r \in Runs : Created(r) /\ RUNS[runId[r]].status = "done"
  /\ runId[1] # runId[2]
  /\ summary[1].db_id = 1 /\ summary[2].db_id = 0
  /\ Len(RUNS[runId[1]].messages) > Len(RUNS[runId[2]].messages)

\* C20: no state shows a run with status done whose summary has not yet been
\* handed to persistence (the results file written or tried).
C20_PersistedBeforeDone ==
  \A r \in Runs :
    (Created(r) /\ RUNS[runId[r]].status = "done") => persist[r] # <<>>

\* C21: the temporary file of _run_code_safely is released on every exit
\* path: when the call has returned or raised, no temporary file it created
\* exists any more.
C21_TempFileReleased ==
  sbPc \in {"ret", "raised"} => tmpFile # "exists"

\* The models of ms whose value is a number, and the one an entry has to
\* name: the first of them with the extreme value.
RealOnes(vals) == {i \in DOMAIN vals : vals[i].t = "int"}
\* sign is 1 where the least value wins and -1 where the greatest does.
Winner(vals, sign) ==
  CHOOSE i \in RealOnes(vals) :
    /\ \A j \in RealOnes(vals) : sign * vals[j].v >= sign * vals[i].v
    /\ \A j \in RealOnes(vals) : (j < i) => sign * vals[j].v > sign * vals[i].v
EntryIsRight(entry, vals, sign) ==
  IF RealOnes(vals) = {}
  THEN ~entry.set
  ELSE /\ entry.set
       /\ entry.model = Winner(vals, sign)
       /\ entry.value = vals[Winner(vals, sign)]

\* C22: for every non-empty list of model reports each top-performer entry
\* names the first model with the extreme value among the models whose value
\* is not null; a model with a null value is never named, and never keeps a
\* model with a real value (0 included) from being named.
C22_TopPerformers ==
  (evIn.fn = "top_summary" /\ evIn.arg # <<>>) =>
     /\ EntryIsRight(evOut.fastest, [i \in DOMAIN evIn.arg |-> evIn.arg[i].mean], 1)
     /\ EntryIsRight(evOut.best_code,
                      [i \in DOMAIN evIn.arg |-> evIn.arg[i].code_score], 0 - 1)
     /\ EntryIsRight(evOut.best_smart,
                      [i \in DOMAIN evIn.arg |-> evIn.arg[i].smartness_score], 0 - 1)

\* The messages a run with M selected models logs up to the end of the loop
\* of _run_tests_sync: 'Starting run...', then for each model in selection
\* order 'Testing model ... (i/M)' and its completion line.
RECURSIVE LoopMessages(_, _)
LoopMessages(i, M) ==
  IF i > M THEN <<>>
  ELSE <<Msg("Testing model", "", i, i, M), Msg("Completed", "", i, 0, 0)>>
         \o LoopMessages(i + 1, M)
ExpectedLog(M) == <<Msg("Starting run...", "", 0, 0, 0)>> \o LoopMessages(1, M)
IsLoopMessage(m) == m.text \in {"Starting run...", "Testing model", "Completed"}
IsPrefix(p, q) == Len(p) <= Len(q) /\ \A i \in DOMAIN p : p[i] = q[i]

\* C23: models are evaluated one at a time in selection order: at every
\* moment the start, 'Testing' and completion messages of a run's log are a
\* prefix of Starting, Testing 1/M, Completed 1, Testing 2/M, ...; the summary
\* lists the reports in selection order, report i being there only after
\* 'Testing i/M' and report i+1 only after the completion line of i; and once
\* _run_tests_sync has returned from its loop the log holds the pair of every
\* one of the M models and the summary M reports.
C23_ModelsInOrder ==
  \A r \in Runs :
    Created(r) =>
      LET log == SelectSeq(RUNS[runId[r]].messages, IsLoopMessage)
          reports == summary[r].models_tested
      IN  /\ IsPrefix(log, ExpectedLog(total[r]))
          /\ \A i \in DOMAIN reports : reports[i].model = i
          /\ Len(reports) <= total[r]
          /\ reports # <<>> => Len(log) >= 2 * Len(reports)
          /\ (summary[r].has_top /\ summary[r].error = "") =>
                /\ log = ExpectedLog(total[r])
                /\ Len(reports) = total[r]

\* A run of three models has finished.
C23_Witness ==
  /\ total[1] = 3
  /\ pc[1] = "end"
  /\ Len(summary[1].models_tested) = 3
  /\ SelectSeq(RUNS[runId[1]].messages, IsLoopMessage) = ExpectedLog(3)

\* The names the host reports in a listing, and the place a name is first
\* reported at.
ReportedAt(raw) ==
  {k \in DOMAIN raw.items :
     /\ raw.items[k].name # ""
     /\ raw.wrap = "pair" => raw.items[k].shape = "obj"}
Reported(raw) == {raw.items[i].name : i \in ReportedAt(raw)}
FirstAt(raw, mn) ==
  CHOOSE i \in ReportedAt(raw) :
    /\ raw.items[i].name = mn
    /\ \A j \in ReportedAt(raw) : raw.items[j].name = mn => i <= j

C25_SetResultSeenWhole ==
  (pollPc = "idle" /\ snap.status = "done") =>
     (snap.progress = 100 /\ snap.result # None)

\* C26: once the status of a run is done or error the run no longer changes:
\* its status, progress, result (the summary it refers to included) and log
\* stay as they are.
C26_TerminalRunIsFrozen ==
  [][\A r \in Runs :
       (Created(r) /\ RUNS[runId[r]].status \in {"done", "error"}) =>
          /\ RUNS'[runId[r]] = RUNS[runId[r]]
          /\ summary'[r] = summary[r]]_vars

\* C27: in every reachable state progress 100 implies status done: a pending
\* or running run shows at most 95, a run in error less than 100.
C27_FullProgressMeansDone ==
  \A id \in DOMAIN RUNS :
    /\ RUNS[id].progress = 100 => RUNS[id].status = "done"
    /\ RUNS[id].status \in {"pending", "running"} => RUNS[id].progress <= 95

\* _run_tests_sync has returned for request r after a listing that succeeded
\* and in which no model matched the selection.
NoModelMatched(r) == summary[r].has_top /\ summary[r].error = "" /\ total[r] = 0

\* C28: when the listing succeeds and no available model matches the
\* selection, the run sends no chat request and its status never is error;
\* it ends with status done, progress 100, its result set, no tested model
\* and an empty top-performer summary.
C28_NoMatchEndsDone ==
  \A r \in Runs :
    NoModelMatched(r) =>
      /\ script[r] = NoWorld
      /\ summary[r].models_tested = <<>>
      /\ ~compute_top(summary[r].models_tested).fastest.set
      /\ ~compute_top(summary[r].models_tested).best_code.set
      /\ ~compute_top(summary[r].models_tested).best_smart.set
      /\ RUNS[runId[r]].status # "error"
      /\ pc[r] = "end" =>
            /\ RUNS[runId[r]].status = "done"
            /\ RUNS[runId[r]].progress = 100
            /\ RUNS[runId[r]].result = <<r>>

====
